---- MODULE Spec2Model ----
(***************************************************************************)
(* Model of ekpmeasure's analysis pipeline (analysis/core.py):             *)
(*   Dataset.__init__, Dataset.dataset_query, Dataset.group,               *)
(*   Dataset.get_data, Data.mean, Data.apply.                              *)
(*                                                                         *)
(* A Dataset is a table of meta data rows (index, filename, descriptor     *)
(* columns x and trial) plus the attribute index_to_path.  The files on    *)
(* disk hold named columns of NSamples numbers each.  Data objects live    *)
(* in a heap: a Data container maps group keys to entry dicts, and an      *)
(* entry dict holds 'definition' and 'data'.  Containers and entry dicts   *)
(* are separate objects because the code shares entry dicts between        *)
(* containers.                                                             *)
(***************************************************************************)
EXTENDS Integers, Sequences, FiniteSets, TLC

VARIABLES table, path, index_to_path, disk, truedir, ret, containers, entries

vars == <<table, path, index_to_path, disk, truedir, ret, containers, entries>>

(***************************************************************************)
(* Bounds of the model.                                                    *)
(***************************************************************************)
MaxRows == 3
MaxX == 2
NSamples == 2
MaxObjs == 2

(***************************************************************************)
(* Exact rational arithmetic: numpy's float mean is modelled as an exact   *)
(* quotient <<numerator, denominator>> in lowest terms.                    *)
(***************************************************************************)
Abs(n) == IF n < 0 THEN 0 - n ELSE n

RECURSIVE GCD(_, _)
GCD(a, b) == IF b = 0 THEN a ELSE GCD(b, a % b)

Norm(q) ==
  LET g == GCD(Abs(q[1]), Abs(q[2]))
  IN  IF q[1] = 0 THEN <<0, 1>> ELSE <<q[1] \div g, q[2] \div g>>

Rat(n) == <<n, 1>>
RAdd(p, q) == Norm(<<p[1] * q[2] + q[1] * p[2], p[2] * q[2]>>)
RDivInt(p, k) == Norm(<<p[1], p[2] * k>>)

RECURSIVE RSum(_)
RSum(s) == IF s = <<>> THEN Rat(0) ELSE RAdd(s[1], RSum(Tail(s)))

(***************************************************************************)
(* numpy arrays: a shape and the elements in row-major order.              *)
(*   shape <<>>     a 0-d scalar                                           *)
(*   shape <<s>>    a 1-d array of s samples                               *)
(*   shape <<n, s>> a 2-d array, n rows (members) of s samples             *)
(***************************************************************************)
Arr1(s) == [shape |-> <<Len(s)>>, flat |-> s]

NRows(A) == IF Len(A.shape) = 2 THEN A.shape[1] ELSE 1
NCols(A) == A.shape[Len(A.shape)]

\* VStack with the arguments of np.vstack swapped: the new row comes first
VStackSwapped(A, B) ==
  [shape |-> <<NRows(A) + 1, NCols(B)>>, flat |-> B.flat \o A.flat]

\* np.vstack((A, B)) with B 1-d: A (1-d or 2-d) gets B as a further row
VStack(A, B) ==
  [shape |-> <<NRows(A) + 1, NCols(B)>>, flat |-> A.flat \o B.flat]

\* row r (1-based) of a 2-d array, as a sequence
RowOf(A, r) == SubSeq(A.flat, (r - 1) * A.shape[2] + 1, r * A.shape[2])

\* column j (1-based) of a 2-d array, as a sequence
ColOf(A, j) == [r \in 1..A.shape[1] |-> A.flat[(r - 1) * A.shape[2] + j]]

\* np.mean(A, axis = 0); the caller excludes 0-d arrays (numpy raises AxisError)
MeanAxis0(A) ==
  IF Len(A.shape) = 2
    THEN [shape |-> <<A.shape[2]>>,
          flat |-> [j \in 1..A.shape[2] |->
                      RDivInt(RSum(ColOf(A, j)), A.shape[1])]]
    ELSE [shape |-> <<>>, flat |-> <<RDivInt(RSum(A.flat), Len(A.flat))>>]

(***************************************************************************)
(* The meta data table.  Column x holds 1..MaxX or is missing (NaN),       *)
(* written 0.  The pointer column is 'filename'.                           *)
(***************************************************************************)
pointercolumn == "filename"
Columns == <<"filename", "x", "trial">>

IsNaN(v) == v = 0

Val(row, col) ==
  CASE col = "filename" -> row.filename
    [] col = "x"        -> row.x
    [] col = "trial"    -> row.trial

Indices(tbl) == {tbl[k].index : k \in 1..Len(tbl)}

(***************************************************************************)
(* Files.  A file is named by a number; its columns are a subset of        *)
(* {a, b, c}.                                                              *)
(***************************************************************************)
Schemas == {{"a", "b"}, {"a", "c"}, {"a"}}

ColOffset(col) == CASE col = "a" -> 0 [] col = "b" -> 10 [] col = "c" -> 20

FileContent(fid, schema, lvl) ==
  [col \in schema |->
     Arr1([j \in 1..NSamples |-> Rat(fid * fid + lvl * j + ColOffset(col))])]

(***************************************************************************)
(* Dataset.__init__: builds index_to_path, a pandas Series, modelled as    *)
(* the sequence of its <<index label, directory>> items.                   *)
(*   path = [kind |-> "str", dir |-> d, map |-> <<>>]          a string    *)
(*   path = [kind |-> "dict", dir |-> "", map |-> <<[dir, idx], ...>>]     *)
(*          a dict {directory: [indices]} in insertion order               *)
(***************************************************************************)
RECURSIVE DictItems(_, _)
\* {i: key for i in idx}: a dict keeps one item per distinct i
DictItems(idx, key) ==
  IF idx = <<>> THEN <<>>
  ELSE LET rest == DictItems(SubSeq(idx, 1, Len(idx) - 1), key)
           i == idx[Len(idx)]
       IN  IF \E k \in 1..Len(rest) : rest[k][1] = i
             THEN rest ELSE Append(rest, <<i, key>>)

RECURSIVE ConcatItems(_)
\* pd.concat over the keys of the path dict, index labels kept
ConcatItems(map) ==
  IF map = <<>> THEN <<>>
  ELSE ConcatItems(SubSeq(map, 1, Len(map) - 1))
         \o DictItems(map[Len(map)].idx, map[Len(map)].dir)

SeriesLabels(series) == {series[k][1] : k \in 1..Len(series)}

BuildIndexToPath(p, n) ==
  IF p.kind = "str"
    THEN [k \in 1..n |-> <<k - 1, p.dir>>]
    ELSE ConcatItems(p.map)

\* the constructor's outcome for path p and an initializer of n rows
DatasetInit(p, n) ==
  IF p.kind \notin {"str", "dict"}
    THEN [status |-> "AssertionError", index_to_path |-> <<>>]
  ELSE IF p.kind = "dict" /\ p.map = <<>>
    THEN [status |-> "UnboundLocalError", index_to_path |-> <<>>]
  ELSE LET s == BuildIndexToPath(p, n)
       IN  IF Len(s) # Cardinality(SeriesLabels(s))
             THEN [status |-> "ValueError", index_to_path |-> <<>>]
             ELSE [status |-> "ok", index_to_path |-> s]

\* self.index_to_path[i]: the items labelled i
SeriesGet(series, i) == {series[k][2] : k \in {m \in 1..Len(series) : series[m][1] = i}}

(***************************************************************************)
(* Dataset.dataset_query: pandas query keeps the rows that satisfy the     *)
(* predicate, in table order, with their index labels.  The predicates     *)
(* are comparisons of column x with a value; a missing x compares unequal  *)
(* to everything.                                                          *)
(***************************************************************************)
Predicates == [op : {"==", "!="}, val : 1..MaxX]

Satisfies(row, p) ==
  IF p.op = "==" THEN (~IsNaN(row.x) /\ row.x = p.val)
                 ELSE (IsNaN(row.x) \/ row.x # p.val)

RECURSIVE Query(_, _)
Query(tbl, p) ==
  IF tbl = <<>> THEN <<>>
  ELSE IF Satisfies(tbl[1], p) THEN <<tbl[1]>> \o Query(Tail(tbl), p)
       ELSE Query(Tail(tbl), p)

(***************************************************************************)
(* Dataset.group.  by is the sequence of grouping columns (a bare column   *)
(* name is the one-element sequence).  pandas' groupby(by).groups has one  *)
(* item per distinct key among the rows with no missing value in the       *)
(* grouping columns (dropna = True), in ascending key order (sort = True), *)
(* and lists each key's row labels in table order.                         *)
(***************************************************************************)
KeyOf(row, by) == [k \in 1..Len(by) |-> Val(row, by[k])]

HasNaNKey(row, by) == \E k \in 1..Len(by) : IsNaN(Val(row, by[k]))

RECURSIVE LexLess(_, _)
LexLess(a, b) ==
  IF a = <<>> \/ b = <<>> THEN a = <<>> /\ b # <<>>
  ELSE IF a[1] # b[1] THEN a[1] < b[1]
  ELSE LexLess(Tail(a), Tail(b))

RECURSIVE SortKeys(_)
SortKeys(S) ==
  IF S = {} THEN <<>>
  ELSE LET m == CHOOSE k \in S : \A o \in S \ {k} : LexLess(k, o)
       IN  <<m>> \o SortKeys(S \ {m})

RECURSIVE FirstSeenKeys(_, _)
\* the distinct keys in the order a pass over the rows first meets them
FirstSeenKeys(tbl, by) ==
  IF tbl = <<>> THEN <<>>
  ELSE LET rest == FirstSeenKeys(SubSeq(tbl, 1, Len(tbl) - 1), by)
           row == tbl[Len(tbl)]
       IN  IF HasNaNKey(row, by) \/ \E k \in 1..Len(rest) : rest[k] = KeyOf(row, by)
             THEN rest ELSE Append(rest, KeyOf(row, by))

GroupedRows(tbl, by) == {k \in 1..Len(tbl) : ~HasNaNKey(tbl[k], by)}

\* the keys of groupby(by).groups, in the order the dict lists them
GroupKeys(tbl, by) == SortKeys({KeyOf(tbl[k], by) : k \in GroupedRows(tbl, by)})

RECURSIVE MembersOf(_, _, _)
\* groups[key]: the rows of the key, in table order
MembersOf(tbl, by, key) ==
  IF tbl = <<>> THEN <<>>
  ELSE IF ~HasNaNKey(tbl[1], by) /\ KeyOf(tbl[1], by) = key
         THEN <<tbl[1]>> \o MembersOf(Tail(tbl), by, key)
         ELSE MembersOf(Tail(tbl), by, key)

\* NewRow with the sets built from the keys of the per-column dicts (the row
\* indices) instead of their values
NewRowIndexSets(members) ==
  [filename |-> [k \in 1..Len(members) |-> <<members[k].index, members[k].filename>>],
   x        |-> {members[k].index : k \in 1..Len(members)},
   trial    |-> {members[k].index : k \in 1..Len(members)}]

\* new_row of one group: the pointer column stays the dict index -> filename
\* (in insertion order), every other column becomes the set of its values
NewRow(members) ==
  [filename |-> [k \in 1..Len(members) |-> <<members[k].index, members[k].filename>>],
   x        |-> {members[k].x : k \in 1..Len(members)},
   trial    |-> {members[k].trial : k \in 1..Len(members)}]

\* new_df is bound in the first pass of the loop: no group, no new_df
Group(tbl, by) ==
  LET keys == GroupKeys(tbl, by)
  IN  IF keys = <<>>
        THEN [status |-> "UnboundLocalError", rows |-> <<>>]
        ELSE [status |-> "ok",
              rows |-> [g \in 1..Len(keys) |-> NewRow(MembersOf(tbl, by, keys[g]))]]

(***************************************************************************)
(* Dataset.get_data.  The loops over the groups (i, counter) and over the  *)
(* members of a group (k) thread the locals columns_set, internal_out and  *)
(* out; status records the exception that ends the call, if any.           *)
(***************************************************************************)
NoColumns == {}

\* readfileby(directory + filename): the file is found where it lives
ReadOk(i2p, dsk, dirOf, index, fname) ==
  /\ SeriesGet(i2p, index) # {}
  /\ fname \in DOMAIN dsk
  /\ SeriesGet(i2p, index) = {dirOf[fname]}

\* {col: data_to_retrieve.at[i, col] for col in self.columns}; the pointer
\* column is popped after the loop, and so are the keys labelby does not name
Definition(grow, labelby) ==
  LET full == [col \in {"x", "trial"} |-> IF col = "x" THEN grow.x ELSE grow.trial]
  IN  IF labelby = <<>> THEN full
      ELSE [col \in {"x", "trial"} \cap {labelby[n] : n \in 1..Len(labelby)} |-> full[col]]

\* one pass of the inner loop: member k (0-based) of group i (0-based)
LoadMember(st, i2p, dsk, dirOf, grow, labelby, i, k) ==
  LET index == grow.filename[k + 1][1]
      fname == grow.filename[k + 1][2]
  IN
  IF ~ReadOk(i2p, dsk, dirOf, index, fname)
    THEN [st EXCEPT !.status = "Exception"]
  ELSE
    LET tdf == dsk[fname]
        columns_set == IF i = 0 THEN DOMAIN tdf ELSE st.columns_set
    IN
    IF DOMAIN tdf # columns_set
      THEN [st EXCEPT !.status = "ValueError", !.columns_set = columns_set]
    ELSE IF k = 0
      THEN [st EXCEPT !.columns_set = columns_set,
                      !.internal_out = [definition |-> Definition(grow, labelby),
                                        data |-> tdf]]
    ELSE IF \E col \in columns_set : col \notin DOMAIN st.internal_out.data
      THEN [st EXCEPT !.status = "KeyError", !.columns_set = columns_set]
    ELSE [st EXCEPT !.columns_set = columns_set,
                    !.internal_out.data =
                       [col \in DOMAIN st.internal_out.data |->
                          IF col \in columns_set
                            THEN VStack(st.internal_out.data[col], tdf[col])
                            ELSE st.internal_out.data[col]]]

RECURSIVE LoadGroup(_, _, _, _, _, _, _, _)
\* the inner loop from member k on, then out.update({counter: internal_out})
LoadGroup(st, i2p, dsk, dirOf, grow, labelby, i, k) ==
  IF st.status # "ok" THEN st
  ELSE IF k = Len(grow.filename)
    THEN [st EXCEPT !.out = Append(st.out, st.internal_out)]
  ELSE LoadGroup(LoadMember(st, i2p, dsk, dirOf, grow, labelby, i, k),
                 i2p, dsk, dirOf, grow, labelby, i, k + 1)

RECURSIVE LoadGroups(_, _, _, _, _, _, _)
\* the outer loop from group i on
LoadGroups(st, i2p, dsk, dirOf, rows, labelby, i) ==
  IF st.status # "ok" \/ i = Len(rows) THEN st
  ELSE LoadGroups(LoadGroup(st, i2p, dsk, dirOf, rows[i + 1], labelby, i, 0),
                  i2p, dsk, dirOf, rows, labelby, i + 1)

\* groupby = <<>> stands for None: group by the pointer column
GetDataResult(tbl, i2p, dsk, dirOf, groupby, labelby) ==
  LET g == Group(tbl, IF groupby = <<>> THEN <<pointercolumn>> ELSE groupby)
      st0 == [status |-> "ok", columns_set |-> NoColumns,
              internal_out |-> [definition |-> <<>>, data |-> <<>>], out |-> <<>>]
  IN  IF g.status # "ok"
        THEN [st0 EXCEPT !.status = g.status]
        ELSE LoadGroups(st0, i2p, dsk, dirOf, g.rows, labelby, 0)

(***************************************************************************)
(* The heap of Data objects.  containers[c] is the Data dict c: position   *)
(* k + 1 holds the entry dict of key k (keys are the dense counter         *)
(* 0..n-1).  entries[e] is an entry dict {'definition':.., 'data':..}.     *)
(* Entry dicts no container refers to are dropped and the others are       *)
(* numbered in order of first reference.                                   *)
(***************************************************************************)
Content(conts, ents, c) == [k \in 1..Len(conts[c]) |-> ents[conts[c][k]]]

RECURSIVE Refs(_)
Refs(conts) ==
  IF conts = <<>> THEN <<>>
  ELSE Refs(SubSeq(conts, 1, Len(conts) - 1)) \o conts[Len(conts)]

RECURSIVE Distinct(_)
Distinct(s) ==
  IF s = <<>> THEN <<>>
  ELSE LET rest == Distinct(SubSeq(s, 1, Len(s) - 1))
       IN  IF \E k \in 1..Len(rest) : rest[k] = s[Len(s)]
             THEN rest ELSE Append(rest, s[Len(s)])

PosIn(s, v) == CHOOSE k \in 1..Len(s) : s[k] = v

Collect(conts, ents) ==
  LET live == Distinct(Refs(conts))
  IN  [containers |-> [c \in 1..Len(conts) |->
                         [k \in 1..Len(conts[c]) |-> PosIn(live, conts[c][k])]],
       entries |-> [e \in 1..Len(live) |-> ents[live[e]]]]

(***************************************************************************)
(* Data.mean                                                               *)
(***************************************************************************)
\* np.mean(.., axis = 0) raises AxisError on a 0-d array
MeanRaises(e) == \E col \in DOMAIN e.data : e.data[col].shape = <<>>

\* {k: np.mean(data[k], axis = 0) for k in data}, put under 'data'
MeanEntry(e) ==
  [definition |-> e.definition,
   data |-> [col \in DOMAIN e.data |-> MeanAxis0(e.data[col])]]

\* the keys (positions) the loop passes before an exception ends it
MeanDone(cont, ents) ==
  {k \in 1..Len(cont) : \A j \in 1..k : ~MeanRaises(ents[cont[j]])}

MeanFails(cont, ents) == \E k \in 1..Len(cont) : MeanRaises(ents[cont[k]])

(***************************************************************************)
(* Data.apply.  The transforms are functions of a group's data dict.       *)
(***************************************************************************)
Transforms == {"neg", "abs"}

TransformValue(f, q) ==
  IF f = "neg" THEN <<0 - q[1], q[2]>> ELSE <<Abs(q[1]), q[2]>>

Transform(f, data) ==
  [col \in DOMAIN data |->
     [shape |-> data[col].shape,
      flat |-> [n \in 1..Len(data[col].flat) |-> TransformValue(f, data[col].flat[n])]]]

\* ApplyLoop with every function given the receiver's data (self[key]) and
\* not the data the function before it returned (tmp_out[key])
ApplyLoopUnthreaded(tmp_out, fs) ==
  IF fs = <<>> THEN tmp_out
  ELSE [k \in 1..Len(tmp_out) |->
          [definition |-> tmp_out[k].definition,
           data |-> Transform(fs[Len(fs)], tmp_out[k].data)]]

RECURSIVE ApplyLoop(_, _)
\* the loop over zip(data_functions, kwargs_for_functions) and, inside, over
\* the keys of tmp_out: every entry is replaced by a new dict with the same
\* definition and data_function(data)
ApplyLoop(tmp_out, fs) ==
  IF fs = <<>> THEN tmp_out
  ELSE ApplyLoop([k \in 1..Len(tmp_out) |->
                    [definition |-> tmp_out[k].definition,
                     data |-> Transform(fs[1], tmp_out[k].data)]],
                 Tail(fs))

(***************************************************************************)
(* Data.apply with kwargs_for_function.  A kwargs mapping is the sequence  *)
(* of its <<name, value>> items.  The argument kwargs_for_function is None *)
(* ([none |-> TRUE]) or a list of mappings; np.array([..]).flatten() makes *)
(* a bare mapping the list of that one mapping.  The transforms take their *)
(* keyword arguments as Python functions do:                               *)
(*   neg(data)           no keyword argument; any given raises TypeError   *)
(*   clip(data, hi = 5)  every sample above hi becomes hi                  *)
(***************************************************************************)
KwTransforms == {"neg", "clip"}

KwargsMappings == {<<>>, <<<<"hi", 3>>>>, <<<<"hi", 12>>>>}

NoneKwargs == [none |-> TRUE, list |-> <<>>]

KwargsArgs ==
  {NoneKwargs}
    \cup {[none |-> FALSE, list |-> l] :
            l \in {<<>>} \cup {<<m>> : m \in KwargsMappings}
                        \cup {<<m1, m2>> : m1 \in KwargsMappings, m2 \in KwargsMappings}}

KwFunctionLists == {<<>>} \cup {<<f>> : f \in KwTransforms}
                     \cup {<<f, g>> : f \in KwTransforms, g \in KwTransforms}

\* kwargs_for_functions with the list used over and over (or cut) to fit the
\* number of functions, so that the counts never differ
KwargsForRecycled(fs, kwargs) ==
  [i \in 1..Len(fs) |->
     IF kwargs.none \/ kwargs.list = <<>> THEN <<>>
     ELSE kwargs.list[((i - 1) % Len(kwargs.list)) + 1]]

\* kwargs_for_functions: [{} for each function] when the argument is None,
\* else the argument flattened
KwargsFor(fs, kwargs) ==
  IF kwargs.none THEN [i \in 1..Len(fs) |-> <<>>] ELSE kwargs.list

\* data_function(data, **kw) is a valid call
Accepts(f, kw) == f = "clip" \/ kw = <<>>

ClipValue(q, hi) == IF q[1] > hi * q[2] THEN Rat(hi) ELSE q

\* data_function(data, **kw)
TransformKw(f, kw, data) ==
  IF f = "clip"
    THEN LET hi == IF kw = <<>> THEN 5 ELSE kw[1][2]
         IN  [col \in DOMAIN data |->
                [shape |-> data[col].shape,
                 flat |-> [n \in 1..Len(data[col].flat) |->
                             ClipValue(data[col].flat[n], hi)]]]
    ELSE Transform(f, data)

RECURSIVE ApplyKwLoop(_, _, _, _, _)
\* the loop over zip(data_functions, kwargs_for_functions) from position i
\* on; calls lists the invocations data_function(data, **kwargs_for) made so
\* far, the one that raised included
ApplyKwLoop(tmp_out, fs, kws, i, calls) ==
  IF i > Len(fs) \/ i > Len(kws)
    THEN [status |-> "ok", out |-> tmp_out, calls |-> calls]
  ELSE IF Len(tmp_out) >= 1 /\ ~Accepts(fs[i], kws[i])
    THEN [status |-> "TypeError", out |-> tmp_out,
          calls |-> Append(calls, [i |-> i, f |-> fs[i], kw |-> kws[i], key |-> 1])]
  ELSE ApplyKwLoop([k \in 1..Len(tmp_out) |->
                      [definition |-> tmp_out[k].definition,
                       data |-> TransformKw(fs[i], kws[i], tmp_out[k].data)]],
                   fs, kws, i + 1,
                   calls \o [k \in 1..Len(tmp_out) |->
                               [i |-> i, f |-> fs[i], kw |-> kws[i], key |-> k]])

(***************************************************************************)
(* State.  table, path, index_to_path: the Dataset at hand.  disk,         *)
(* truedir: the files and the directory each lives in.  containers,        *)
(* entries: the heap of Data objects; the client keeps the objects         *)
(* returned to it while it has room for them (MaxObjs).  ret: the last     *)
(* call and what it returned:                                              *)
(*   returned  "ok" (a value: a Dataset, a table), "None", "new" (an       *)
(*             object the call built), "self" (the receiver itself), or    *)
(*             "raise"                                                     *)
(*   obj       the container returned, when the client kept it, else 0     *)
(*   calls     the invocations of transforms an apply with kwargs made     *)
(* The client filters the Dataset any number of times, then calls group    *)
(* or get_data once (ret.op = "none" until then), then works on the Data   *)
(* objects.                                                                *)
(***************************************************************************)
NoRet ==
  [op |-> "none", status |-> "ok", returned |-> "ok", obj |-> 0, nfs |-> 0,
   by |-> <<>>, bare |-> FALSE, labelby |-> <<>>, grouped |-> <<>>,
   calls |-> <<>>]

GroupBys ==
  {[bare |-> TRUE, cols |-> <<"x">>], [bare |-> FALSE, cols |-> <<"x">>],
   [bare |-> FALSE, cols |-> <<"x", "trial">>]}

LabelBys == {<<>>, <<"x">>}

FunctionLists == {<<>>} \cup {<<f>> : f \in Transforms}
                   \cup {<<f, g>> : f \in Transforms, g \in Transforms}

TrialOf(index) == (index % 2) + 1

DirOf(kind, index) == IF kind = "str" \/ index % 2 = 0 THEN "d1/" ELSE "d2/"

RECURSIVE IndicesIn(_, _, _)
\* the indices below n that live in directory d, ascending
IndicesIn(kind, d, n) ==
  IF n = 0 THEN <<>>
  ELSE IF DirOf(kind, n - 1) = d
         THEN Append(IndicesIn(kind, d, n - 1), n - 1)
         ELSE IndicesIn(kind, d, n - 1)

PathFor(kind, n) ==
  IF kind = "str"
    THEN [kind |-> "str", dir |-> "d1/", map |-> <<>>]
    ELSE [kind |-> "dict", dir |-> "",
          map |-> <<[dir |-> "d1/", idx |-> IndicesIn(kind, "d1/", n)],
                    [dir |-> "d2/", idx |-> IndicesIn(kind, "d2/", n)]>>]

\* a Dataset of n rows just constructed, its files on disk
Constructed(n, xs, schemas, lvls, kind) ==
  /\ table = [k \in 1..n |-> [index |-> k - 1, filename |-> k, x |-> xs[k],
                              trial |-> TrialOf(k - 1)]]
  /\ path = PathFor(kind, n)
  /\ index_to_path = DatasetInit(PathFor(kind, n), n).index_to_path
  /\ disk = [fid \in 1..n |-> FileContent(fid, schemas[fid], lvls[fid])]
  /\ truedir = [fid \in 1..n |-> DirOf(kind, fid - 1)]
  /\ ret = NoRet
  /\ containers = <<>>
  /\ entries = <<>>

UniformSchema(n) == [fid \in 1..n |-> {"a", "b"}]
UnitLevels(n) == [fid \in 1..n |-> 1]

\* tables with any x, missing ones included; all files with columns {a, b}
Init ==
  \E n \in 1..MaxRows :
    \E xs \in [1..n -> 0..MaxX], kind \in {"str", "dict"} :
      Constructed(n, xs, UniformSchema(n), UnitLevels(n), kind)

\* tables with no x missing; files of any schema
InitSchema ==
  \E n \in 1..MaxRows :
    \E xs \in [1..n -> 1..MaxX], schemas \in [1..n -> Schemas] :
      Constructed(n, xs, schemas, UnitLevels(n), "str")

\* tables whose first m rows have x = 1 and the others x = 2, with at most
\* one row of x = 2; all files with columns {a, b}
InitData ==
  \E n \in 1..MaxRows :
    \E m \in {n - 1, n} \cap 1..n :
      Constructed(n, [k \in 1..n |-> IF k <= m THEN 1 ELSE 2],
                  UniformSchema(n), UnitLevels(n), "str")

(***************************************************************************)
(* Actions                                                                 *)
(***************************************************************************)
\* T = T.dataset_query(p)
dataset_query(p) ==
  LET q == Query(table, p)
      r == DatasetInit(path, Len(q))
  IN  /\ ret.op = "none"
      /\ table' = IF r.status = "ok" THEN q ELSE table
      /\ index_to_path' = IF r.status = "ok" THEN r.index_to_path ELSE index_to_path
      /\ ret' = IF r.status = "ok" THEN ret
                ELSE [NoRet EXCEPT !.op = "dataset_query", !.status = r.status,
                                   !.returned = "raise"]
      /\ UNCHANGED <<path, disk, truedir, containers, entries>>

\* pandas lists a key with a missing value in one of several grouping columns
\* in some versions and not in others; such calls are left out
KeysModelled(tbl, by) ==
  Len(by) <= 1 \/ \A k \in 1..Len(tbl) : ~HasNaNKey(tbl[k], by)

\* T.group(by)
group(by) ==
  LET g == Group(table, by.cols)
  IN  /\ ret.op = "none"
      /\ KeysModelled(table, by.cols)
      /\ ret' = [NoRet EXCEPT !.op = "group", !.status = g.status,
                              !.returned = IF g.status = "ok" THEN "ok" ELSE "raise",
                              !.by = by.cols,
                              !.bare = by.bare, !.grouped = g.rows]
      /\ UNCHANGED <<table, path, index_to_path, disk, truedir, containers, entries>>

\* D = T.get_data(groupby, labelby); groupby = <<>> stands for None
get_data(groupby, bare, labelby) ==
  LET r == GetDataResult(table, index_to_path, disk, truedir, groupby, labelby)
  IN  /\ ret.op = "none"
      /\ KeysModelled(table, groupby)
      /\ ret' = [NoRet EXCEPT !.op = "get_data", !.status = r.status,
                              !.returned = IF r.status = "ok" THEN "new" ELSE "raise",
                              !.obj = IF r.status = "ok" THEN 1 ELSE 0,
                              !.by = groupby, !.bare = bare, !.labelby = labelby]
      /\ containers' = IF r.status = "ok" THEN <<[k \in 1..Len(r.out) |-> k]>> ELSE <<>>
      /\ entries' = IF r.status = "ok" THEN r.out ELSE <<>>
      /\ UNCHANGED <<table, path, index_to_path, disk, truedir>>

\* the heap after the call returned a new Data object over the entry dicts
\* refs: the client keeps it if it has room
Keep(conts, ents, refs) ==
  IF Len(conts) < MaxObjs THEN Collect(Append(conts, refs), ents)
                          ELSE Collect(conts, ents)

Kept(conts) == IF Len(conts) < MaxObjs THEN Len(conts) + 1 ELSE 0

\* containers[c].mean(inplace)
mean(c, inplace) ==
  LET cont == containers[c]
      fails == MeanFails(cont, entries)
      raised == [NoRet EXCEPT !.op = "mean", !.status = "AxisError",
                              !.returned = "raise"]
      done == [NoRet EXCEPT !.op = "mean", !.returned = "new",
                            !.obj = Kept(containers)]
  IN
  /\ IF ~inplace
       THEN \* tmp_out holds copies of the entry dicts; return Data(tmp_out)
            IF fails
              THEN /\ ret' = raised
                   /\ UNCHANGED <<containers, entries>>
              ELSE LET h == Keep(containers,
                                 entries \o [k \in 1..Len(cont) |->
                                               MeanEntry(entries[cont[k]])],
                                 [k \in 1..Len(cont) |-> Len(entries) + k])
                   IN  /\ containers' = h.containers
                       /\ entries' = h.entries
                       /\ ret' = done
       ELSE \* self[key].update(..) changes the entry dicts themselves, up to
            \* the key that raises; return Data(self)
            LET upd == [e \in 1..Len(entries) |->
                          IF \E k \in MeanDone(cont, entries) : cont[k] = e
                            THEN MeanEntry(entries[e]) ELSE entries[e]]
            IN  IF fails
                  THEN /\ entries' = upd
                       /\ UNCHANGED containers
                       /\ ret' = raised
                  ELSE LET h == Keep(containers, upd, cont)
                       IN  /\ containers' = h.containers
                           /\ entries' = h.entries
                           /\ ret' = done
  /\ UNCHANGED <<table, path, index_to_path, disk, truedir>>

\* containers[c].apply(fs, inplace = inplace)
apply(c, fs, inplace) ==
  LET cont == containers[c]
      tmp_out == ApplyLoop(Content(containers, entries, c), fs)
      \* with no function tmp_out still holds the receiver's entry dicts
      refs == IF fs = <<>> THEN cont ELSE [k \in 1..Len(cont) |-> Len(entries) + k]
      ents == IF fs = <<>> THEN entries ELSE entries \o tmp_out
  IN
  /\ IF inplace
       THEN \* self.__init__(tmp_out); return
            LET h == Collect([containers EXCEPT ![c] = refs], ents)
            IN  /\ containers' = h.containers
                /\ entries' = h.entries
                /\ ret' = [NoRet EXCEPT !.op = "apply", !.returned = "None",
                                        !.nfs = Len(fs)]
       ELSE \* return Data(tmp_out)
            LET h == Keep(containers, ents, refs)
            IN  /\ containers' = h.containers
                /\ entries' = h.entries
                /\ ret' = [NoRet EXCEPT !.op = "apply", !.returned = "new",
                                        !.obj = Kept(containers), !.nfs = Len(fs)]
  /\ UNCHANGED <<table, path, index_to_path, disk, truedir>>

\* containers[c].apply(fs, kwargs_for_function = kwargs, inplace = inplace),
\* called on the Data object get_data just returned
apply_kw(c, fs, kwargs, inplace) ==
  LET cont == containers[c]
      kws == KwargsFor(fs, kwargs)
      r == ApplyKwLoop(Content(containers, entries, c), fs, kws, 1, <<>>)
      refs == IF fs = <<>> THEN cont ELSE [k \in 1..Len(cont) |-> Len(entries) + k]
      ents == IF fs = <<>> THEN entries ELSE entries \o r.out
      called == [NoRet EXCEPT !.op = "apply", !.nfs = Len(fs)]
  IN
  /\ ret.op = "get_data"
  /\ IF Len(kws) # Len(fs)
       THEN \* raise ValueError before tmp_out is made
            /\ ret' = [called EXCEPT !.status = "ValueError", !.returned = "raise"]
            /\ UNCHANGED <<containers, entries>>
       ELSE IF r.status # "ok"
         THEN \* a transform raised inside the loop; tmp_out is dropped
              /\ ret' = [called EXCEPT !.status = r.status, !.returned = "raise",
                                       !.calls = r.calls]
              /\ UNCHANGED <<containers, entries>>
       ELSE IF inplace
         THEN LET h == Collect([containers EXCEPT ![c] = refs], ents)
              IN  /\ containers' = h.containers
                  /\ entries' = h.entries
                  /\ ret' = [called EXCEPT !.returned = "None", !.calls = r.calls]
         ELSE LET h == Keep(containers, ents, refs)
              IN  /\ containers' = h.containers
                  /\ entries' = h.entries
                  /\ ret' = [called EXCEPT !.returned = "new",
                                           !.obj = Kept(containers),
                                           !.calls = r.calls]
  /\ UNCHANGED <<table, path, index_to_path, disk, truedir>>

Next ==
  \/ \E p \in Predicates : dataset_query(p)
  \/ \E by \in GroupBys : group(by)
  \/ \E by \in GroupBys, labelby \in LabelBys : get_data(by.cols, by.bare, labelby)
  \/ \E labelby \in LabelBys : get_data(<<>>, FALSE, labelby)
  \/ \E c \in DOMAIN containers, inplace \in BOOLEAN : mean(c, inplace)

Spec == Init /\ [][Next]_vars

SpecSchema == InitSchema /\ [][Next]_vars

NextData ==
  \/ get_data(<<"x">>, FALSE, <<>>)
  \/ get_data(<<>>, FALSE, <<>>)
  \/ \E c \in DOMAIN containers, inplace \in BOOLEAN : mean(c, inplace)
  \/ \E c \in DOMAIN containers, fs \in FunctionLists, inplace \in BOOLEAN :
        apply(c, fs, inplace)

SpecData == InitData /\ [][NextData]_vars

(***************************************************************************)
(* Construction: Dataset(path = p, initializer = table) for a table not    *)
(* yet wrapped, with the row indices any subset of 0..MaxRows-1 (a table   *)
(* read from file has all of them, a filtered one has some), and any path  *)
(* argument: a string, a dict {directory: [indices]}, or something else.   *)
(***************************************************************************)
NoPath == [kind |-> "unset", dir |-> "", map |-> <<>>]

RECURSIVE AscSeq(_)
\* the elements of a set of numbers in ascending order
AscSeq(S) ==
  IF S = {} THEN <<>>
  ELSE LET m == CHOOSE x \in S : \A y \in S : x <= y
       IN  <<m>> \o AscSeq(S \ {m})

RowIndices == 0..(MaxRows - 1)

IndexLists == {<<>>} \cup {<<i>> : i \in RowIndices}
                \cup {<<i, j>> : i \in RowIndices, j \in RowIndices}

Paths ==
  {[kind |-> "str", dir |-> "d1/", map |-> <<>>],
   [kind |-> "list", dir |-> "", map |-> <<>>],
   [kind |-> "dict", dir |-> "", map |-> <<>>]}
    \cup {[kind |-> "dict", dir |-> "", map |-> <<[dir |-> "d1/", idx |-> l]>>] :
            l \in IndexLists}
    \cup {[kind |-> "dict", dir |-> "",
           map |-> <<[dir |-> "d1/", idx |-> l1], [dir |-> "d2/", idx |-> l2]>>] :
            l1 \in IndexLists, l2 \in IndexLists}

InitTable ==
  \E S \in SUBSET RowIndices :
    /\ table = [k \in 1..Cardinality(S) |->
                  [index |-> AscSeq(S)[k], filename |-> AscSeq(S)[k] + 1, x |-> 1,
                   trial |-> TrialOf(AscSeq(S)[k])]]
    /\ path = NoPath
    /\ index_to_path = <<>>
    /\ disk = [fid \in 1..MaxRows |-> FileContent(fid, {"a", "b"}, 1)]
    /\ truedir = [fid \in 1..MaxRows |-> "d1/"]
    /\ ret = NoRet
    /\ containers = <<>>
    /\ entries = <<>>

\* Dataset(path = p, initializer = table)
Dataset_init(p) ==
  LET r == DatasetInit(p, Len(table))
  IN  /\ ret.op = "none"
      /\ path = NoPath
      /\ path' = IF r.status = "ok" THEN p ELSE path
      /\ index_to_path' = IF r.status = "ok" THEN r.index_to_path ELSE index_to_path
      /\ ret' = [NoRet EXCEPT !.op = "Dataset", !.status = r.status,
                              !.returned = IF r.status = "ok" THEN "ok" ELSE "raise"]
      /\ UNCHANGED <<table, disk, truedir, containers, entries>>

NextInit == \E p \in Paths : Dataset_init(p)

SpecInit == InitTable /\ [][NextInit]_vars

NextApply ==
  \/ get_data(<<"x">>, FALSE, <<>>)
  \/ get_data(<<>>, FALSE, <<>>)
  \/ \E c \in DOMAIN containers, fs \in KwFunctionLists, kwargs \in KwargsArgs,
         inplace \in BOOLEAN : apply_kw(c, fs, kwargs, inplace)

SpecApply == InitData /\ [][NextApply]_vars

(***************************************************************************)
(* Properties                                                              *)
(***************************************************************************)
\* the grouping columns of the last group or get_data call
ByCols == IF ret.by = <<>> THEN <<pointercolumn>> ELSE ret.by

\* the groups of the table for those columns, as Dataset.group lists them
Groups == Group(table, ByCols).rows

MemberFiles(grow) == {grow.filename[k][2] : k \in 1..Len(grow.filename)}

MemberIndices(grow) == {grow.filename[k][1] : k \in 1..Len(grow.filename)}

\* some group has two member files with different column names
MixedGroup ==
  \E g \in 1..Len(Groups) :
    \E f1, f2 \in MemberFiles(Groups[g]) : DOMAIN disk[f1] # DOMAIN disk[f2]

\* C1: whenever some group of a get_data call holds two files whose column
\* names differ, the call raises the schema-mismatch ValueError (and returns
\* no Data object), whichever group it is.
C1_MismatchRaisesValueError ==
  (ret.op = "get_data" /\ MixedGroup) => ret.status = "ValueError"

\* C2: after T.dataset_query(p) the new Dataset's index_to_path has exactly
\* one entry for every retained row index, the directory the row had in T.
C2_QueryKeepsPathEntries ==
  [][\A p \in Predicates :
       dataset_query(p) =>
         \A i \in Indices(table') :
           /\ Cardinality({m \in 1..Len(index_to_path') : index_to_path'[m][1] = i}) = 1
           /\ SeriesGet(index_to_path', i) = SeriesGet(index_to_path, i)]_vars

\* C3: the member mappings of the groups Dataset.group yields partition the
\* row indices of the table: every row index, also of a row whose grouping
\* value is missing, is in exactly one group's members.
C3_GroupsPartitionRows ==
  (ret.op = "group" /\ ret.status = "ok") =>
    \A i \in Indices(table) :
      Cardinality({g \in 1..Len(ret.grouped) : i \in MemberIndices(ret.grouped[g])}) = 1

\* the keys of the rows that have one
RowKeys == {KeyOf(table[k], ByCols) : k \in GroupedRows(table, ByCols)}

\* the rows (positions in the table) of key K
RowsOfKey(K) == {k \in GroupedRows(table, ByCols) : KeyOf(table[k], ByCols) = K}

\* the first row of key K in table order
FirstRowOfKey(K) == CHOOSE k \in RowsOfKey(K) : \A o \in RowsOfKey(K) : k <= o

\* 1 for the smallest key, 2 for the next, ...
RankOfKey(K) == 1 + Cardinality({o \in RowKeys : LexLess(o, K)})

\* 1 for the key a pass over the rows meets first, 2 for the next new key, ...
SeenOfKey(K) == PosIn(FirstSeenKeys(table, ByCols), K)

\* the samples of column a that entry e holds for its first member
FirstSamples(e) == SubSeq(e.data["a"].flat, 1, NSamples)

GroupReturned == ret.op = "group" /\ ret.status = "ok"

DataReturned == ret.op = "get_data" /\ ret.status = "ok"

XValues == {table[k].x : k \in 1..Len(table)} \ {0}

SameSchema(grow) ==
  \A f1, f2 \in MemberFiles(grow) : DOMAIN disk[f1] = DOMAIN disk[f2]

\* C6: for a group of n >= 2 member files with the same columns, get_data
\* returns for every column an array of shape (n, NSamples) whose row r holds
\* the samples of the r-th member in the order of the group's index ->
\* filename mapping.
C6_StackedInMemberOrder ==
  DataReturned =>
    \A g \in 1..Len(Groups) :
      LET members == Groups[g].filename
          e == entries[containers[1][g]]
      IN  (Len(members) >= 2 /\ SameSchema(Groups[g])) =>
            \A col \in DOMAIN disk[members[1][2]] :
              /\ col \in DOMAIN e.data
              /\ e.data[col].shape = <<Len(members), NSamples>>
              /\ \A r \in 1..Len(members) :
                   RowOf(e.data[col], r) = disk[members[r][2]][col].flat

\* get_data returned a group of at least two members with the same columns
C6_Witness ==
  /\ DataReturned
  /\ \E g \in 1..Len(Groups) : Len(Groups[g].filename) >= 2 /\ SameSchema(Groups[g])

\* the mean of sample j of column col over the member files of a group
MemberMean(members, col, j) ==
  RDivInt(RSum([r \in 1..Len(members) |-> disk[members[r][2]][col].flat[j]]),
          Len(members))

\* C7: Data.mean on the Data object get_data returned yields, for every group
\* and column, a 1-d array of NSamples entries, entry j the mean of sample j
\* over the group's members; a group of one member keeps its own samples.
C7_MeanOverMembers ==
  [][\A inplace \in BOOLEAN :
       (DataReturned /\ mean(1, inplace)) =>
         /\ ret'.returned # "raise"
         /\ \A g \in 1..Len(Groups) :
              LET members == Groups[g].filename
                  e == entries'[containers'[IF inplace THEN 1 ELSE 2][g]]
              IN  \A col \in DOMAIN disk[members[1][2]] :
                    /\ e.data[col].shape = <<NSamples>>
                    /\ \A j \in 1..NSamples :
                         e.data[col].flat[j] = MemberMean(members, col, j)]_vars

\* C8: mean(inplace = True) and apply(f, inplace = True) return the receiver
\* itself, not a new container and not None.
C8_InplaceReturnsReceiver ==
  [][\A c \in DOMAIN containers :
       /\ (mean(c, TRUE) /\ ret'.returned # "raise") => ret'.returned = "self"
       /\ \A fs \in FunctionLists : apply(c, fs, TRUE) => ret'.returned = "self"]_vars

\* a call of mean or apply on container c
Call(c, inplace) == mean(c, inplace) \/ \E fs \in FunctionLists : apply(c, fs, inplace)

\* C9: a mean or apply call that is not in place returns a new container and
\* leaves the receiver's entries as they were; and no call, in place or not,
\* changes the definitions or data of any Data object other than its
\* receiver.
C9_OtherObjectsKeepTheirData ==
  [][\A c \in DOMAIN containers :
       /\ Call(c, FALSE) =>
            /\ ret'.returned \in {"new", "raise"}
            /\ Content(containers', entries', c) = Content(containers, entries, c)
       /\ \A inplace \in BOOLEAN :
            Call(c, inplace) =>
              \A d \in DOMAIN containers \ {c} :
                Content(containers', entries', d) = Content(containers, entries, d)]_vars

\* C10: D.apply([f, g]) equals D.apply(f).apply(g): the same keys, every
\* definition carried through, every group's data g(f(data)).
C10_ApplyListIsComposition ==
  [][\A c \in DOMAIN containers : \A f, g \in Transforms :
       (ret'.op = "apply" /\ ret'.nfs = 2 /\ ret'.obj # 0
          /\ apply(c, <<f, g>>, FALSE)) =>
         LET D == Content(containers, entries, c)
             R == Content(containers', entries', ret'.obj)
         IN  /\ R = ApplyLoop(ApplyLoop(D, <<f>>), <<g>>)
             /\ Len(R) = Len(D)
             /\ \A k \in 1..Len(D) :
                  /\ R[k].definition = D[k].definition
                  /\ R[k].data = Transform(g, Transform(f, D[k].data))]_vars

\* apply with two functions returned container 2, which holds a negative
\* sample where the receiver, container 1, holds a positive one: the
\* functions were abs, then neg
C10_Witness ==
  /\ ret.op = "apply"
  /\ ret.nfs = 2
  /\ ret.obj = 2
  /\ \E k \in 1..Len(containers[2]) :
       \E col \in DOMAIN entries[containers[2][k]].data :
         /\ entries[containers[2][k]].data[col].flat[1][1] < 0
         /\ entries[containers[1][k]].data[col].flat[1][1] > 0

\* the call made at position i of the function list for key k
CallsAt(calls, i, k) == {n \in 1..Len(calls) : calls[n].i = i /\ calls[n].key = k}

\* C11: apply with kwargs given and as many kwargs mappings as not the
\* number of transforms raises ValueError, invokes no transform and leaves
\* every Data object as it was, in place or not; with kwargs omitted every
\* transform is called once per key with no keyword argument; with kwargs
\* given pairwise, every call of the i-th transform gets the i-th mapping.
C11_KwargsPairedOrValueError ==
  [][\A c \in DOMAIN containers, fs \in KwFunctionLists, kwargs \in KwargsArgs,
        inplace \in BOOLEAN :
       apply_kw(c, fs, kwargs, inplace) =>
         /\ (~kwargs.none /\ Len(kwargs.list) # Len(fs)) =>
              /\ ret'.status = "ValueError"
              /\ ret'.calls = <<>>
              /\ containers' = containers
              /\ entries' = entries
         /\ kwargs.none =>
              /\ ret'.status = "ok"
              /\ \A i \in 1..Len(fs), k \in 1..Len(containers[c]) :
                   \E n \in 1..Len(ret'.calls) :
                     /\ CallsAt(ret'.calls, i, k) = {n}
                     /\ ret'.calls[n].f = fs[i]
                     /\ ret'.calls[n].kw = <<>>
         /\ (~kwargs.none /\ Len(kwargs.list) = Len(fs)) =>
              /\ ret'.status # "ValueError"
              /\ \A n \in 1..Len(ret'.calls) :
                   /\ ret'.calls[n].f = fs[ret'.calls[n].i]
                   /\ ret'.calls[n].kw = kwargs.list[ret'.calls[n].i]
              /\ ret'.status = "ok" =>
                   \A i \in 1..Len(fs), k \in 1..Len(containers[c]) :
                     Cardinality(CallsAt(ret'.calls, i, k)) = 1]_vars

\* apply with two transforms and another number of kwargs mappings raised
\* ValueError
C11_Witness ==
  /\ ret.op = "apply"
  /\ ret.nfs = 2
  /\ ret.status = "ValueError"

\* the directories the dict p.map lists row index i under
DirsOf(p, i) ==
  {p.map[m].dir : m \in {n \in 1..Len(p.map) :
                           \E k \in 1..Len(p.map[n].idx) : p.map[n].idx[k] = i}}

\* the row indices the dict p.map lists
Listed(p) ==
  UNION {{p.map[m].idx[k] : k \in 1..Len(p.map[m].idx)} : m \in 1..Len(p.map)}

\* C12: Dataset(path, table) raises when the path dict lists a row index
\* under two directories or the path is neither a string nor a dict;
\* otherwise it succeeds, and index_to_path is the inverse of the dict (each
\* listed index maps to its one directory, nothing else is mapped) or, for a
\* string, maps every row index of the table to that string.
C12_ConstructsInverseOrFails ==
  [][\A p \in Paths :
       Dataset_init(p) =>
         IF p.kind \notin {"str", "dict"}
              \/ (p.kind = "dict" /\ \E i \in Listed(p) : Cardinality(DirsOf(p, i)) > 1)
           THEN ret'.status # "ok"
           ELSE /\ ret'.status = "ok"
                /\ IF p.kind = "str"
                     THEN \A i \in Indices(table) :
                            SeriesGet(index_to_path', i) = {p.dir}
                     ELSE /\ SeriesLabels(index_to_path') = Listed(p)
                          /\ \A i \in Listed(p) :
                               /\ SeriesGet(index_to_path', i) = DirsOf(p, i)
                               /\ Cardinality({m \in 1..Len(index_to_path') :
                                                 index_to_path'[m][1] = i}) = 1]_vars

====
